---- MODULE Spec2Model ----
(***************************************************************************)
(* Model of the restore-files task (amazeeio/lagoon-restore-files-task).   *)
(*                                                                         *)
(* One process invocation of cmd.Execute is modelled as a state machine:   *)
(* flag parsing and validation, the restore workflow (restore claim,       *)
(* restore request, watch, classification, upload-pod bootstrap, cleanup)  *)
(* and the upload-only workflow.  The cluster is the set of objects that   *)
(* exist plus the log of every create/delete request the process issued.   *)
(* The backup controller, the watch stream and the kubelet are the         *)
(* environment.                                                            *)
(***************************************************************************)
EXTENDS Integers, Sequences, FiniteSets, TLC

(* ----------------------------- bounds --------------------------------- *)

\* Number of status updates the backup controller may write to the restore
\* request during one run.
MaxUpdates == 1

\* Number of non-restore events the watch stream may deliver during one run.
MaxOther == 1

\* Number of phase transitions the upload pod may go through.
MaxPodSteps == 2

(* ------------------------- values of the flags ------------------------ *)

Subcommands == {"", "restore", "upload", "bogus"}
TaskIdFlags == {"", "7", "42", "abc"}
BackupIdFlags == {"", "bk-1"}
FilterFlags == {"", "/data/css"}
NamespaceFlags == {"", "lagoon-demo"}
TokenHostFlags == {"", "ssh.lagoon"}
TokenPortFlags == {"", "2020"}
ApiHostFlags == {"", "http://api.lagoon"}
TaskImageFlags == {"", "registry/restore-files-task"}

\* -restore-target and -archive-target, and the defaults of the two flags.
DefaultRestoreTarget == "/restore"
DefaultArchiveTarget == "/archive"
RestoreTargetFlags == {DefaultRestoreTarget, "/mnt/restored"}
ArchiveTargetFlags == {DefaultArchiveTarget, "/mnt/archive"}

\* Outcomes of rand.IntN(9999), formatted by "rnd-%04d".
RndIds == {"rnd-0000", "rnd-0042"}

\* The characters of a task ID.
TaskIdChars(taskId) ==
    CASE taskId = "" -> <<>>
      [] taskId = "7" -> <<"7">>
      [] taskId = "42" -> <<"4", "2">>
      [] taskId = "abc" -> <<"a", "b", "c">>
      [] taskId = "rnd-0000" -> <<"r", "n", "d", "-", "0", "0", "0", "0">>
      [] taskId = "rnd-0042" -> <<"r", "n", "d", "-", "0", "0", "4", "2">>

DigitChars == <<"0", "1", "2", "3", "4", "5", "6", "7", "8", "9">>

IsDigit(c) == \E d \in DOMAIN DigitChars : DigitChars[d] = c

DigitValue(c) == (CHOOSE d \in DOMAIN DigitChars : DigitChars[d] = c) - 1

RECURSIVE ParseDigits(_, _)
ParseDigits(chars, acc) ==
    IF chars = <<>> THEN acc
    ELSE ParseDigits(Tail(chars), acc * 10 + DigitValue(Head(chars)))

\* strconv.Atoi: an optional sign followed by decimal digits; anything else
\* is a syntax error, for which the value returned is 0.
Atoi(chars) ==
    LET signed == chars # <<>> /\ Head(chars) \in {"+", "-"}
        digits == IF signed THEN Tail(chars) ELSE chars
        valid == digits # <<>> /\ \A i \in DOMAIN digits : IsDigit(digits[i])
        magnitude == IF valid THEN ParseDigits(digits, 0) ELSE 0
    IN [value |-> IF signed /\ Head(chars) = "-" THEN 0 - magnitude ELSE magnitude,
        ok |-> valid]

(* ------------------------- cluster objects ---------------------------- *)

PVCKind == "PersistentVolumeClaim"
RestoreKind == "Restore"
PodKind == "Pod"

Obj(kind, name) == [kind |-> kind, name |-> name]

\* A nil pointer passed to Cleanup.
Nil == [kind |-> "nil", name |-> ""]

\* The zero value of an object type (empty name), as returned beside an error.
Zero(kind) == [kind |-> kind, name |-> ""]

(* ----------------------------- naming --------------------------------- *)

TaskKeyBroken(taskId) == "rft-"

\* TaskKey: fmt.Sprintf("rft-%s", taskId)
TaskKey(taskId) == "rft-" \o taskId

\* Name of the restore target claim: fmt.Sprintf("target-%s", t.TaskKey)
RestorePVCName(taskKey) == "target-" \o taskKey

\* Name of the archive claim: fmt.Sprintf("archive-target-%s", t.TaskKey)
ArchivePVCName(taskKey) == "archive-target-" \o taskKey

\* Name of the restore request: t.TaskKey
RestoreName(taskKey) == taskKey

\* Name of the upload pod: fmt.Sprintf("upload-%s", t.TaskKey)
UploadPodName(taskKey) == "upload-" \o taskKey

(* --------------------- restore request status ------------------------- *)

NoCondition == [present |-> FALSE, status |-> "", reason |-> "", message |-> ""]

Cond(status, reason, message) ==
    [present |-> TRUE, status |-> status, reason |-> reason, message |-> message]

ReadyConditions ==
    { NoCondition,
      Cond("True", "Ready", "ready"),
      Cond("False", "CreationFailed", "cannot create job") }

ProgressingConditions ==
    { NoCondition, Cond("True", "Started", "restore running") }

CompletedConditions ==
    { NoCondition,
      Cond("True", "Succeeded", "restore done"),
      Cond("True", "Failed", "snapshot not found"),
      Cond("False", "Failed", "repository locked"),
      Cond("False", "Started", "not yet") }

RestoreStatuses ==
    [ready : ReadyConditions,
     progressing : ProgressingConditions,
     completed : CompletedConditions]

EmptyStatus ==
    [ready |-> NoCondition, progressing |-> NoCondition, completed |-> NoCondition]

(* ----------------------------- state ---------------------------------- *)

VARIABLES
    args,          \* the parsed flags and the subcommand
    pc,            \* position of the process in Execute
    task,          \* the RestoreTask built by NewRestoreTask
    objects,       \* cluster objects that exist
    calls,         \* log of create/delete requests issued by the process
    cleanups,      \* log of Cleanup invocations
    restoreStatus, \* status of the restore request in the cluster
    watch,         \* the watch: state, pending events, events processed
    updates,       \* number of controller updates so far
    pod,           \* upload pod: phase, transitions, image
    result,        \* what the phases returned: errors, classification
    exit,          \* exit code and message of the process
    names          \* two tasks side by side: the requests each has issued

vars == <<args, pc, task, objects, calls, cleanups, restoreStatus, watch,
          updates, pod, result, exit, names>>

NoNames == [tasks |-> <<>>, archiveFails |-> <<>>, at |-> <<>>, log |-> {}]

NoTask == [TaskId |-> "", TaskKey |-> "", BackupId |-> "", RestoreFilter |-> ""]

Running == [code |-> -1, msg |-> <<>>]

NoWatch == [state |-> "none", chan |-> <<>>, closed |-> FALSE, other |-> 0]

\* The watch after w.Stop(): its channel is closed and discarded.
StoppedWatch == [state |-> "stopped", chan |-> <<>>, closed |-> FALSE, other |-> 0]

\* A token of a container command: a flag with its value, or a positional
\* argument (flag = "").
Positional(value) == [flag |-> "", value |-> value]

NoPodSpec ==
    [command |-> <<>>,
     volumes |-> [v \in {"restore-target", "archive-target"} |-> ""],
     mounts |-> [v \in {"restore-target", "archive-target"} |-> ""],
     env |-> [JSON_PAYLOAD |-> [bid |-> "", filter |-> ""], TASK_DATA_ID |-> "",
              LAGOON_CONFIG_TOKEN_HOST |-> "", LAGOON_CONFIG_TOKEN_PORT |-> "",
              LAGOON_CONFIG_API_HOST |-> ""]]

NoPod == [phase |-> "", steps |-> 0, image |-> "", spec |-> NoPodSpec]

NoResult == [outcome |-> "", waitEnd |-> "", bootstrapErr |-> <<>>,
             uploadFailed |-> <<>>, podSeen |-> "", uploadedTo |-> -1]

AllArgs ==
    [subcommand : Subcommands,
     ns : NamespaceFlags,
     tid : TaskIdFlags,
     bid : BackupIdFlags,
     filter : FilterFlags,
     tokenHost : TokenHostFlags,
     tokenPort : TokenPortFlags,
     apiHost : ApiHostFlags,
     taskImage : TaskImageFlags,
     restoreTarget : RestoreTargetFlags,
     archiveTarget : ArchiveTargetFlags,
     skipBootstrap : BOOLEAN]

\* The flags a subcommand never reads are left at one value: the upload
\* endpoint outside "upload"; namespace, filter, task image and
\* skip-bootstrap outside "restore"; the two target paths outside "restore"
\* and "upload" and when the bootstrap is skipped.  The two target paths are
\* either both left at their defaults or both given, and the task IDs other
\* than "7" are given to "upload", which converts the task ID to a number.
EndpointSet(a) ==
    a.tokenHost = "ssh.lagoon" /\ a.tokenPort = "2020" /\ a.apiHost = "http://api.lagoon"

RestoreOnlyFlagsDefault(a) ==
    a.ns = "lagoon-demo" /\ a.filter = "/data/css" /\ a.taskImage = "" /\ ~a.skipBootstrap

TargetsDefault(a) ==
    a.restoreTarget = DefaultRestoreTarget /\ a.archiveTarget = DefaultArchiveTarget

StartArgs ==
    { a \in AllArgs :
        /\ a.subcommand # "upload" => EndpointSet(a)
        /\ a.subcommand # "restore" => RestoreOnlyFlagsDefault(a)
        /\ (a.subcommand \notin {"restore", "upload"} \/ a.skipBootstrap) =>
              TargetsDefault(a)
        /\ (a.restoreTarget = DefaultRestoreTarget) <=>
              (a.archiveTarget = DefaultArchiveTarget)
        /\ a.tid \in {"42", "abc"} => a.subcommand = "upload" }

Init ==
    /\ args \in StartArgs
    /\ pc = "parse"
    /\ task = NoTask
    /\ objects = {}
    /\ calls = <<>>
    /\ cleanups = <<>>
    /\ restoreStatus = EmptyStatus
    /\ watch = NoWatch
    /\ updates = 0
    /\ pod = NoPod
    /\ result = NoResult
    /\ exit = Running
    /\ names = NoNames

\* log.Fatalf / os.Exit(1): the process ends with a non-zero status.
Fatal(msg) ==
    /\ pc' = "exited"
    /\ exit' = [code |-> 1, msg |-> msg]

\* os.Exit(0), or Execute returning to main.
ExitOk ==
    /\ pc' = "exited"
    /\ exit' = [code |-> 0, msg |-> <<>>]

(* ------------------------ the cluster client -------------------------- *)

\* t.Client.Create: the object exists afterwards iff the call succeeded.
CreateCall(obj, ok) == [op |-> "create", obj |-> obj, ok |-> ok]

DeleteCall(obj, ok) == [op |-> "delete", obj |-> obj, ok |-> ok]

\* A request that neither creates nor deletes an object: a get, a watch, a
\* step of the upload workflow.
StepCall(op, ok) == [op |-> op, obj |-> Nil, ok |-> ok]

NonNil(targets) == SelectSeq(targets, LAMBDA o : o # Nil)

CleanupTargetsPVCOnly(pvc, restore) == NonNil(<<pvc>>)

\* RestoreTask.Cleanup: deletes the restore if non-nil, then the claim if
\* non-nil; each deletion is attempted whatever the previous one returned.
CleanupTargets(pvc, restore) == NonNil(<<restore, pvc>>)

\* The third argument of Cleanup (the upload pod), deleted when non-nil.
CleanupPodTargets(p) == NonNil(<<p>>)

RECURSIVE DeleteAllStopsOnError(_, _, _, _)
DeleteAllStopsOnError(targets, objs, fails, i) ==
    IF i > Len(targets)
    THEN [objs |-> objs, log |-> <<>>]
    ELSE LET o == targets[i]
             ok == o \in objs /\ i \notin fails
             rest == DeleteAllStopsOnError(targets, objs \ {o}, fails, i + 1)
         IN IF ok
            THEN [objs |-> rest.objs, log |-> <<DeleteCall(o, ok)>> \o rest.log]
            ELSE [objs |-> objs, log |-> <<DeleteCall(o, ok)>>]

\* The deletions of one Cleanup call, in order.  A delete fails when the
\* object does not exist or when the API call errs (index in fails); a
\* failure is logged and the next deletion is attempted.
RECURSIVE DeleteAll(_, _, _, _)
DeleteAll(targets, objs, fails, i) ==
    IF i > Len(targets)
    THEN [objs |-> objs, log |-> <<>>]
    ELSE LET o == targets[i]
             ok == o \in objs /\ i \notin fails
             rest == DeleteAll(targets, IF ok THEN objs \ {o} ELSE objs, fails, i + 1)
         IN [objs |-> rest.objs, log |-> <<DeleteCall(o, ok)>> \o rest.log]

\* One invocation of t.Cleanup(pvc, restore, pod) for resource set `set`,
\* issued after the requests `pre` of the same step.
CleanupAfter(pre, set, pvc, restore, p) ==
    LET targets == CleanupTargets(pvc, restore) \o CleanupPodTargets(p)
    IN \E fails \in SUBSET (1 .. Len(targets)) :
         LET r == DeleteAll(targets, objects, fails, 1)
         IN /\ objects' = r.objs
            /\ calls' = calls \o pre \o r.log
            /\ cleanups' = Append(cleanups, [set |-> set, targets |-> targets,
                                             args |-> <<pvc, restore, p>>,
                                             log |-> r.log])

Cleanup(set, pvc, restore, p) == CleanupAfter(<<>>, set, pvc, restore, p)

(* ------------------- Execute: flags and validation -------------------- *)

\* flag.Parse and the usage check: no subcommand ends the process with 1.
ParseFlags ==
    /\ pc = "parse"
    /\ IF args.subcommand = ""
       THEN Fatal(<<"Usage: restore-task [flags] [restore|upload]">>)
       ELSE pc' = "kubeconfig" /\ UNCHANGED exit
    /\ UNCHANGED <<names, args, task, objects, calls, cleanups, restoreStatus, watch,
                   updates, pod, result>>

\* clientcmd.BuildConfigFromFlags: fatal on error.
LoadKubeConfig ==
    /\ pc = "kubeconfig"
    /\ \E ok \in BOOLEAN :
         IF ok
         THEN pc' = "newtask" /\ UNCHANGED exit
         ELSE Fatal(<<"Failed to load kubernetes config: ", "config error">>)
    /\ UNCHANGED <<names, args, task, objects, calls, cleanups, restoreStatus, watch,
                   updates, pod, result>>

\* The RestoreTask returned by NewRestoreTask: an empty task ID is replaced
\* by a random "rnd-NNNN", and the task key is derived from the task ID.
NewTask(tid, rnd, bid, filter) ==
    LET taskId == IF tid = "" THEN rnd ELSE tid
    IN [TaskId |-> taskId,
        TaskKey |-> TaskKey(taskId),
        BackupId |-> bid,
        RestoreFilter |-> filter]

\* task.NewRestoreTask: builds the clients (each may fail) and the task.
NewRestoreTask ==
    /\ pc = "newtask"
    /\ \E ok \in BOOLEAN :
         IF ok
         THEN /\ \E rnd \in RndIds : task' = NewTask(args.tid, rnd, args.bid, args.filter)
              /\ pc' = "dispatch"
              /\ UNCHANGED exit
         ELSE /\ Fatal(<<"Failed to load task config: ", "failed to create client">>)
              /\ UNCHANGED task
    /\ UNCHANGED <<names, args, objects, calls, cleanups, restoreStatus, watch,
                   updates, pod, result>>

UploadConfigMissingFour(a) ==
    a.tid = "" \/ a.tokenHost = "" \/ a.tokenPort = "" \/ a.apiHost = ""

\* The upload subcommand's check:
\* backupId == "" || taskId == "" || tokenHost == "" || tokenPort == "" || apiHost == ""
UploadConfigMissing(a) ==
    a.bid = "" \/ a.tid = "" \/ a.tokenHost = "" \/ a.tokenPort = "" \/ a.apiHost = ""

RestoreConfigMissingNone(a) == FALSE

\* The restore subcommand's check:
\* backupId == "" || restoreFilter == "" || taskNamespace == "" || taskId == ""
RestoreConfigMissing(a) ==
    a.bid = "" \/ a.filter = "" \/ a.ns = "" \/ a.tid = ""

\* The subcommand dispatch and the per-subcommand validation.
Dispatch ==
    /\ pc = "dispatch"
    /\ IF args.subcommand = "upload"
       THEN IF UploadConfigMissing(args)
            THEN Fatal(<<"Missing one of: backup id, task id, token host, token port, api host">>)
            ELSE pc' = "u_archive" /\ UNCHANGED exit
       ELSE IF args.subcommand # "restore"
            THEN Fatal(<<"Unknown subcommand ", args.subcommand>>)
            ELSE IF RestoreConfigMissing(args)
                 THEN Fatal(<<"Missing one of: namespace, task id, snapshot id, or restore filter">>)
                 ELSE pc' = "r_pvc" /\ UNCHANGED exit
    /\ UNCHANGED <<names, args, task, objects, calls, cleanups, restoreStatus, watch,
                   updates, pod, result>>

(* ---------------------- the objects of one task ----------------------- *)

RestorePVCOf(t) == Obj(PVCKind, RestorePVCName(t.TaskKey))
ArchivePVCOf(t) == Obj(PVCKind, ArchivePVCName(t.TaskKey))
RestoreOf(t) == Obj(RestoreKind, RestoreName(t.TaskKey))
UploadPodOf(t) == Obj(PodKind, UploadPodName(t.TaskKey))

RestorePVC == RestorePVCOf(task)
ArchivePVC == ArchivePVCOf(task)
RestoreObj == RestoreOf(task)
UploadPod == UploadPodOf(task)

RestoreFailedNoDetail(err) == Fatal(<<"Failed to restore backup">>)

\* Execute, on an error of RestoreToPVC: log.Fatalf("Failed to restore backup: %v", err)
RestoreFailed(err) == Fatal(<<"Failed to restore backup: ">> \o err)

\* RestoreToPVC returning an error: Cleanup of what exists so far (after the
\* requests `pre` of the same step), then the error goes to Execute.
AbortRestore(pre, pvc, restore, err) ==
    /\ CleanupAfter(pre, "restore", pvc, restore, Nil)
    /\ RestoreFailed(err)

(* ------------------ restore phase: claim and request ------------------ *)

\* RestoreToPVC step 1, CreateRestorePVC: t.Client.Create of the claim; on
\* error the zero claim and the error are returned and the workflow aborts.
CreateRestorePVC ==
    /\ pc = "r_pvc"
    /\ \E ok \in BOOLEAN :
         /\ calls' = Append(calls, CreateCall(RestorePVC, ok))
         /\ IF ok
            THEN /\ objects' = objects \cup {RestorePVC}
                 /\ pc' = "r_start"
                 /\ UNCHANGED exit
            ELSE /\ RestoreFailed(<<"failed to create restore target: ", "create error">>)
                 /\ UNCHANGED objects
    /\ UNCHANGED <<names, args, task, cleanups, restoreStatus, watch, updates, pod, result>>

StartRestoreRetries ==
    /\ pc = "r_start"
    /\ \E schedule \in BOOLEAN, ok \in BOOLEAN :
         IF schedule
         THEN /\ calls' = calls \o <<StepCall("get-schedule", TRUE),
                                     CreateCall(RestoreObj, ok)>>
              /\ objects' = IF ok THEN objects \cup {RestoreObj} ELSE objects
              /\ pc' = IF ok THEN "r_watch" ELSE "r_start"
              /\ UNCHANGED <<cleanups, exit>>
         ELSE AbortRestore(<<StepCall("get-schedule", FALSE)>>, RestorePVC, Nil,
                           <<"failed to get schedule: ", "not found">>)
    /\ restoreStatus' = EmptyStatus
    /\ UNCHANGED <<names, args, task, watch, updates, pod, result>>

\* RestoreToPVC step 2, StartRestore: get the schedule, then create the
\* restore request named by the task key; no request is created when the
\* schedule cannot be read.  On failure the claim is cleaned up.
StartRestore ==
    /\ pc = "r_start"
    /\ \E schedule \in BOOLEAN, ok \in BOOLEAN :
         IF schedule /\ ok
         THEN /\ calls' = calls \o <<StepCall("get-schedule", TRUE),
                                     CreateCall(RestoreObj, TRUE)>>
              /\ objects' = objects \cup {RestoreObj}
              /\ pc' = "r_watch"
              /\ UNCHANGED <<cleanups, exit>>
         ELSE IF schedule
              THEN AbortRestore(<<StepCall("get-schedule", TRUE),
                                  CreateCall(RestoreObj, FALSE)>>, RestorePVC, Nil,
                                <<"failed to create restore: ", "create error">>)
              ELSE AbortRestore(<<StepCall("get-schedule", FALSE)>>, RestorePVC, Nil,
                                <<"failed to get schedule: ", "not found">>)
    /\ restoreStatus' = EmptyStatus
    /\ UNCHANGED <<names, args, task, watch, updates, pod, result>>

(* ---------------------- restore phase: the wait ----------------------- *)

RestoreEvent(status) == [type |-> "restore", status |-> status]

OtherEvent == [type |-> "other", status |-> EmptyStatus]

\* WaitForRestore, opening the watch: an error is returned to RestoreToPVC,
\* which cleans up claim and request.  An open watch first delivers the
\* current state of the watched object.
OpenWatch ==
    /\ pc = "r_watch"
    /\ \E ok \in BOOLEAN :
         IF ok
         THEN /\ watch' = [watch EXCEPT !.state = "open",
                                        !.chan = <<RestoreEvent(restoreStatus)>>]
              /\ calls' = Append(calls, StepCall("watch", TRUE))
              /\ pc' = "r_wait"
              /\ UNCHANGED <<objects, cleanups, exit, result>>
         ELSE /\ AbortRestore(<<StepCall("watch", FALSE)>>, RestorePVC, RestoreObj,
                              <<"failed to watch restore: ", "watch error">>)
              /\ result' = [result EXCEPT !.waitEnd = "watcherror"]
              /\ UNCHANGED watch
    /\ UNCHANGED <<names, args, task, restoreStatus, updates, pod>>

WaitBreaksOnProgressing(status) ==
    \/ status.ready.present
    \/ status.progressing.present
    \/ status.completed.present /\ status.completed.status = "True"

\* The loop body of WaitForRestore: break when Ready has reason
\* CreationFailed, or when Completed has status True.
WaitBreaks(status) ==
    \/ status.ready.present /\ status.ready.reason = "CreationFailed"
    \/ status.completed.present /\ status.completed.status = "True"

\* WaitForRestore, one iteration of `for event := range w.ResultChan()`:
\* a non-restore object is skipped; a break stops the watch and returns nil.
WaitReceive ==
    /\ pc = "r_wait"
    /\ watch.chan # <<>>
    /\ LET event == Head(watch.chan)
           break == event.type = "restore" /\ WaitBreaks(event.status)
       IN /\ watch' = IF break
                      THEN StoppedWatch
                      ELSE [watch EXCEPT !.chan = Tail(watch.chan)]
          /\ pc' = IF break THEN "r_fetch" ELSE "r_wait"
          /\ result' = [result EXCEPT !.waitEnd = IF break THEN "break" ELSE @]
    /\ UNCHANGED <<names, args, task, objects, calls, cleanups, restoreStatus, updates,
                   pod, exit>>

\* WaitForRestore, the range loop ending because the channel was closed and
\* drained: the watch is stopped and nil is returned.
WaitChannelClosed ==
    /\ pc = "r_wait"
    /\ watch.chan = <<>>
    /\ watch.closed
    /\ watch' = StoppedWatch
    /\ pc' = "r_fetch"
    /\ result' = [result EXCEPT !.waitEnd = "closed"]
    /\ UNCHANGED <<names, args, task, objects, calls, cleanups, restoreStatus, updates,
                   pod, exit>>

(* ------------- environment: backup controller and watch --------------- *)

Delivering == watch.state = "open" /\ ~watch.closed

\* The backup controller writes a new status to the restore request; an open
\* watch delivers the update.
ControllerUpdate ==
    /\ pc \in {"r_watch", "r_wait", "r_fetch"}
    /\ updates < MaxUpdates
    /\ \E s \in RestoreStatuses :
         /\ s # restoreStatus
         /\ restoreStatus' = s
         /\ watch' = IF Delivering
                     THEN [watch EXCEPT !.chan = Append(@, RestoreEvent(s))]
                     ELSE watch
    /\ updates' = updates + 1
    /\ UNCHANGED <<names, args, pc, task, objects, calls, cleanups, pod, result, exit>>

\* The watch delivers an event whose object is not a restore (a Status).
WatchOtherEvent ==
    /\ Delivering
    /\ watch.other < MaxOther
    /\ watch' = [watch EXCEPT !.chan = Append(@, OtherEvent), !.other = @ + 1]
    /\ UNCHANGED <<names, args, pc, task, objects, calls, cleanups, restoreStatus,
                   updates, pod, result, exit>>

\* The server closes the watch channel.
WatchClose ==
    /\ Delivering
    /\ watch' = [watch EXCEPT !.closed = TRUE]
    /\ UNCHANGED <<names, args, pc, task, objects, calls, cleanups, restoreStatus,
                   updates, pod, result, exit>>

(* ------------------- restore phase: classification -------------------- *)

\* The messages of the conditions of a status printed verbatim.
StatusDump(status) ==
    <<"restore status: ", status.ready.message, status.progressing.message,
      status.completed.message>>

ClassifyOutcomesAnyCompleted(status) ==
    IF status.completed.present THEN {"success"} ELSE {"failure"}

\* The outcomes the classification table allows for a re-fetched status:
\* success for Completed true; failure for Ready CreationFailed, for
\* Completed with reason Failed, for no Completed condition, and for any
\* status that is not a success.  Where a success row and a failure row both
\* match, the table does not say which one wins.
ClassifyOutcomes(status) ==
    LET completed == status.completed
        success == completed.present /\ completed.status = "True"
        failure == \/ status.ready.present /\ status.ready.reason = "CreationFailed"
                   \/ completed.present /\ completed.reason = "Failed"
                   \/ ~completed.present
                   \/ ~success
    IN (IF success THEN {"success"} ELSE {}) \cup (IF failure THEN {"failure"} ELSE {})

\* The error of a failure classification: the Completed condition's message
\* when its reason is Failed, the raw status otherwise.
ClassifyError(status) ==
    IF status.completed.present /\ status.completed.reason = "Failed"
    THEN <<status.completed.message>>
    ELSE StatusDump(status)

\* RestoreToPVC step 4: re-fetch the restore request and classify it.  A
\* failure (of the re-fetch or by classification) cleans up claim and request
\* and returns the error; a success returns the cleanup closure uncalled.
FetchAndClassify ==
    /\ pc = "r_fetch"
    /\ \E ok \in BOOLEAN :
         IF ~ok
         THEN /\ AbortRestore(<<StepCall("get-restore", FALSE)>>, RestorePVC, RestoreObj,
                              <<"failed to get restore: ", "get error">>)
              /\ result' = [result EXCEPT !.outcome = "fetcherror", !.waitEnd = ""]
         ELSE \E o \in ClassifyOutcomes(restoreStatus) :
                IF o = "success"
                THEN /\ result' = [result EXCEPT !.outcome = "success", !.waitEnd = ""]
                     /\ calls' = Append(calls, StepCall("get-restore", TRUE))
                     /\ pc' = "x_restored"
                     /\ UNCHANGED <<objects, cleanups, exit>>
                ELSE /\ AbortRestore(<<StepCall("get-restore", TRUE)>>, RestorePVC,
                                     RestoreObj, ClassifyError(restoreStatus))
                     /\ result' = [result EXCEPT !.outcome = "failure", !.waitEnd = ""]
    /\ UNCHANGED <<names, args, task, restoreStatus, watch, updates, pod>>

(* ------------------- Execute after the restore phase ------------------ *)

SkipNever(a) == FALSE

\* if !*skipBootstrap { ... BootstrapUploadPod ... }
SkipBootstrap(a) == a.skipBootstrap

\* Execute after RestoreToPVC returned without error: "Restore completed",
\* then the bootstrap unless it is skipped.
RestoreCompleted ==
    /\ pc = "x_restored"
    /\ pc' = IF SkipBootstrap(args) THEN "x_cleanup" ELSE "b_image"
    /\ UNCHANGED <<names, args, task, objects, calls, cleanups, restoreStatus, watch,
                   updates, pod, result, exit>>

\* restoreResult.Cleanup: the closure returned by RestoreToPVC, which cleans
\* up the restore claim and the restore request.
RestoreResultCleanup == Cleanup("restore", RestorePVC, RestoreObj, Nil)

\* bootstrapResult.Cleanup: func() { t.Cleanup(&archivePVC, nil, &pod) }
BootstrapResultCleanup == Cleanup("upload", ArchivePVC, Nil, UploadPod)

BootstrapFailedNoCleanup ==
    /\ pc = "x_bootfail"
    /\ Fatal(<<"Failed to upload restore to task: ">> \o result.bootstrapErr)
    /\ UNCHANGED <<names, args, task, objects, calls, cleanups, restoreStatus, watch,
                   updates, pod, result>>

\* Execute on an error of BootstrapUploadPod: restoreResult.Cleanup(), then
\* log.Fatalf("Failed to upload restore to task: %v", err).
BootstrapFailed ==
    /\ pc = "x_bootfail"
    /\ RestoreResultCleanup
    /\ Fatal(<<"Failed to upload restore to task: ">> \o result.bootstrapErr)
    /\ UNCHANGED <<names, args, task, restoreStatus, watch, updates, pod, result>>

\* Execute after BootstrapUploadPod returned without error: "Upload
\* completed", then bootstrapResult.Cleanup().
UploadCompleted ==
    /\ pc = "x_bootok"
    /\ BootstrapResultCleanup
    /\ pc' = "x_cleanup"
    /\ UNCHANGED <<names, args, task, restoreStatus, watch, updates, pod, result, exit>>

\* Execute's last step: restoreResult.Cleanup(), "Task completed", return.
FinalCleanup ==
    /\ pc = "x_cleanup"
    /\ RestoreResultCleanup
    /\ ExitOk
    /\ UNCHANGED <<names, args, task, restoreStatus, watch, updates, pod, result>>

(* ------------------------ BootstrapUploadPod -------------------------- *)

\* self.Spec.Containers[0].Image of the current pod, when it can be read.
SelfImage == "registry/self-image"

TerminalPhases == {"Succeeded", "Failed"}

PodPhases == {"Pending", "Running", "Succeeded", "Failed", "Unknown"}

\* pod.Status.Message of a failed pod (may be empty).
PodMessages == {"", "upload exited 1"}

\* BootstrapUploadPod returning an error to Execute.
BootstrapError(err) ==
    /\ result' = [result EXCEPT !.bootstrapErr = err]
    /\ pc' = "x_bootfail"

UploadPodImageNamePrefersFlag(selfFound, taskImage) ==
    IF taskImage # "" THEN taskImage ELSE IF selfFound THEN SelfImage ELSE ""

UploadPodImageName(selfFound, taskImage) ==
    IF selfFound THEN SelfImage ELSE taskImage

\* The image of the upload pod: the current pod's own image when the pod
\* named by PODNAME can be read, else the -task-image flag; an error when
\* that leaves it empty.  (json.Marshal of the two string arguments cannot
\* fail.)
DetermineImage ==
    /\ pc = "b_image"
    /\ \E selfFound \in BOOLEAN :
         LET image == UploadPodImageName(selfFound, args.taskImage)
         IN /\ calls' = Append(calls, StepCall("get-self", selfFound))
            /\ IF image = ""
               THEN /\ BootstrapError(<<"failed to determine task image">>)
                    /\ UNCHANGED pod
               ELSE /\ pod' = [pod EXCEPT !.image = image]
                    /\ pc' = "b_pvc"
                    /\ UNCHANGED result
    /\ UNCHANGED <<names, args, task, objects, cleanups, restoreStatus, watch,
                   updates, exit>>

\* archivePVC, err := t.CreateRestorePVC("archive-target-<key>", "1Gi"); on
\* error the zero claim is returned, Cleanup is called with it and the error
\* is returned.
CreateArchivePVC ==
    /\ pc = "b_pvc"
    /\ \E ok \in BOOLEAN :
         IF ok
         THEN /\ calls' = Append(calls, CreateCall(ArchivePVC, TRUE))
              /\ objects' = objects \cup {ArchivePVC}
              /\ pc' = "b_pod"
              /\ UNCHANGED <<cleanups, result>>
         ELSE /\ CleanupAfter(<<CreateCall(ArchivePVC, FALSE)>>, "upload",
                              Zero(PVCKind), Nil, Nil)
              /\ BootstrapError(<<"failed to create archive destination: ", "create error">>)
    /\ UNCHANGED <<names, args, task, restoreStatus, watch, updates, pod, exit>>

\* The upload pod built by BootstrapUploadPod: the command, the volumes with
\* the claim each refers to, the path each volume is mounted at, and the
\* environment of the container.
UploadPodSpec(t, a, restorePVCName, archivePVCName) ==
    [command |-> <<Positional("/usr/local/bin/restore-files-task"), Positional("upload")>>,
     volumes |-> [v \in {"restore-target", "archive-target"} |->
                     IF v = "restore-target" THEN restorePVCName ELSE archivePVCName],
     mounts |-> [v \in {"restore-target", "archive-target"} |->
                    IF v = "restore-target" THEN a.restoreTarget ELSE a.archiveTarget],
     env |-> [JSON_PAYLOAD |-> [bid |-> t.BackupId, filter |-> t.RestoreFilter],
              TASK_DATA_ID |-> t.TaskId,
              LAGOON_CONFIG_TOKEN_HOST |-> a.tokenHost,
              LAGOON_CONFIG_TOKEN_PORT |-> a.tokenPort,
              LAGOON_CONFIG_API_HOST |-> a.apiHost]]

\* The flags Execute parses in a container started with `command` and `env`:
\* flag.Parse reads the flags before the first positional argument; a flag
\* that is not given keeps its default, which for the task ID, the backup ID,
\* the filter and the endpoint is taken from the environment.
ProcessArgs(command, env) ==
    LET argv == Tail(command)
        positional == {i \in DOMAIN argv : argv[i].flag = ""}
        first == IF positional = {} THEN Len(argv) + 1
                 ELSE CHOOSE i \in positional : \A j \in positional : i <= j
        Flag(name, default) ==
            IF \E i \in 1 .. (first - 1) : argv[i].flag = name
            THEN argv[CHOOSE i \in 1 .. (first - 1) :
                        /\ argv[i].flag = name
                        /\ \A j \in 1 .. (first - 1) : argv[j].flag = name => j <= i].value
            ELSE default
    IN [subcommand |-> IF first <= Len(argv) THEN argv[first].value ELSE "",
        tid |-> Flag("tid", env.TASK_DATA_ID),
        bid |-> Flag("bid", env.JSON_PAYLOAD.bid),
        filter |-> Flag("filter", env.JSON_PAYLOAD.filter),
        restoreTarget |-> Flag("restore-target", DefaultRestoreTarget),
        archiveTarget |-> Flag("archive-target", DefaultArchiveTarget),
        tokenHost |-> Flag("token-host", env.LAGOON_CONFIG_TOKEN_HOST),
        tokenPort |-> Flag("token-port", env.LAGOON_CONFIG_TOKEN_PORT),
        apiHost |-> Flag("api-host", env.LAGOON_CONFIG_API_HOST)]

\* t.Client.Create of the upload pod; on error Cleanup(&archivePVC, nil, &pod).
CreateUploadPod ==
    /\ pc = "b_pod"
    /\ \E ok \in BOOLEAN :
         IF ok
         THEN /\ calls' = Append(calls, CreateCall(UploadPod, TRUE))
              /\ objects' = objects \cup {UploadPod}
              /\ pod' = [pod EXCEPT !.phase = "Pending",
                                    !.spec = UploadPodSpec(task, args, RestorePVC.name,
                                                           ArchivePVC.name)]
              /\ pc' = "b_wait"
              /\ UNCHANGED <<cleanups, result>>
         ELSE /\ CleanupAfter(<<CreateCall(UploadPod, FALSE)>>, "upload",
                              ArchivePVC, Nil, UploadPod)
              /\ BootstrapError(<<"failed to create upload pod: ", "create error">>)
              /\ UNCHANGED pod
    /\ UNCHANGED <<names, args, task, restoreStatus, watch, updates, exit>>

\* t.WaitForUpload(pod): the pod variant of the wait.  It returns nil once
\* the pod is seen in phase Succeeded or Failed, or when its watch channel is
\* closed; an error of the wait itself cleans up and is returned.
WaitForUpload ==
    /\ pc = "b_wait"
    /\ \E end \in {"terminal", "closed", "error"} :
         \/ /\ end = "terminal"
            /\ pod.phase \in TerminalPhases
            /\ pc' = "b_get"
            /\ result' = [result EXCEPT !.waitEnd = "podterminal"]
            /\ calls' = Append(calls, StepCall("wait-upload", TRUE))
            /\ UNCHANGED <<objects, cleanups>>
         \/ /\ end = "closed"
            /\ pc' = "b_get"
            /\ result' = [result EXCEPT !.waitEnd = "podclosed"]
            /\ calls' = Append(calls, StepCall("wait-upload", TRUE))
            /\ UNCHANGED <<objects, cleanups>>
         \/ /\ end = "error"
            /\ CleanupAfter(<<StepCall("wait-upload", FALSE)>>, "upload",
                            ArchivePVC, Nil, UploadPod)
            /\ result' = [result EXCEPT !.waitEnd = "poderror",
                                        !.bootstrapErr =
                                            <<"failed to wait for upload: ", "watch error">>]
            /\ pc' = "x_bootfail"
    /\ UNCHANGED <<names, args, task, restoreStatus, watch, updates, pod, exit>>

\* The upload pod's phase as the kubelet reports it.
PodAdvance ==
    /\ pc \in {"b_wait", "b_get"}
    /\ pod.steps < MaxPodSteps
    /\ pod.phase \notin TerminalPhases
    /\ \E ph \in PodPhases \ {pod.phase, "Pending"} :
         pod' = [pod EXCEPT !.phase = ph, !.steps = @ + 1]
    /\ UNCHANGED <<names, args, pc, task, objects, calls, cleanups, restoreStatus,
                   watch, updates, result, exit>>

\* The error `uploadFailed` after the re-fetch of the pod: the get error, or
\* the pod's status message when its phase is Failed, or nil (<<>>).
UploadFailed(ok, phase, message) ==
    IF ~ok
    THEN <<"failed to get upload pod: ", "get error">>
    ELSE IF phase = "Failed" THEN <<message>> ELSE <<>>

\* Determine if the upload was a success: t.Client.Get of the pod.
GetUploadPod ==
    /\ pc = "b_get"
    /\ \E ok \in BOOLEAN, message \in PodMessages :
         /\ result' = [result EXCEPT !.uploadFailed = UploadFailed(ok, pod.phase, message),
                                     !.podSeen = IF ok THEN pod.phase ELSE "getfailed"]
         /\ calls' = Append(calls, StepCall("get-pod", ok))
    /\ pc' = "b_logs"
    /\ UNCHANGED <<names, args, task, objects, cleanups, restoreStatus, watch,
                   updates, pod, exit>>

LogsCall(ok) == [op |-> "logs", obj |-> UploadPod, ok |-> ok]

PrintLogsOnlyOnSuccess ==
    /\ pc = "b_logs"
    /\ \E ok \in BOOLEAN :
         IF result.uploadFailed # <<>>
         THEN /\ CleanupAfter(<<>>, "upload", ArchivePVC, Nil, UploadPod)
              /\ BootstrapError(<<"upload failed: ">> \o result.uploadFailed)
         ELSE /\ calls' = Append(calls, LogsCall(ok))
              /\ pc' = "x_bootok"
              /\ UNCHANGED <<objects, cleanups, result>>
    /\ UNCHANGED <<names, args, task, restoreStatus, watch, updates, pod, exit>>

\* t.PrintUploadLogs(pod), whose error is only logged; then the result:
\* Cleanup and an error when uploadFailed is set, the cleanup closure
\* otherwise.
PrintLogsAndReturn ==
    /\ pc = "b_logs"
    /\ \E ok \in BOOLEAN :
         IF result.uploadFailed # <<>>
         THEN /\ CleanupAfter(<<LogsCall(ok)>>, "upload", ArchivePVC, Nil, UploadPod)
              /\ BootstrapError(<<"upload failed: ">> \o result.uploadFailed)
         ELSE /\ calls' = Append(calls, LogsCall(ok))
              /\ pc' = "x_bootok"
              /\ UNCHANGED <<objects, cleanups, result>>
    /\ UNCHANGED <<names, args, task, restoreStatus, watch, updates, pod, exit>>

(* ------------------------ upload-only workflow ------------------------ *)

\* The stages of RestoreTask.ArchiveRestore that can fail: os.Stat of the
\* restore target, archives.FilesFromDisk, os.Create of the archive file,
\* and format.Archive.
ArchiveStages == {"stat", "files", "create", "archive"}

\* The error ArchiveRestore returns when a stage fails.
ArchiveError(stage) ==
    CASE stage = "stat" -> <<"invaid restore target ", "stat error">>
      [] stage = "files" -> <<"failed to parse restore target files: ", "walk error">>
      [] stage = "create" -> <<"failed to create archive: ", "create error">>
      [] stage = "archive" -> <<"failed to archive restore: ", "archive error">>

ArchiveRestoreIgnoresError ==
    /\ pc = "u_archive"
    /\ \E failed \in ArchiveStages \cup {"none"} :
         calls' = Append(calls, StepCall("archive", failed = "none"))
    /\ pc' = "u_stat"
    /\ UNCHANGED <<names, args, task, objects, cleanups, restoreStatus, watch, updates,
                   pod, result, exit>>

\* UploadPVCToTask: t.ArchiveRestore, which returns the error of the first
\* stage that fails; log.Fatalf on an error.
ArchiveRestore ==
    /\ pc = "u_archive"
    /\ \E failed \in ArchiveStages \cup {"none"} :
         /\ calls' = Append(calls, StepCall("archive", failed = "none"))
         /\ IF failed = "none"
            THEN pc' = "u_stat" /\ UNCHANGED exit
            ELSE Fatal(<<"Failed to archive restored files: ">> \o ArchiveError(failed))
    /\ UNCHANGED <<names, args, task, objects, cleanups, restoreStatus, watch, updates,
                   pod, result>>

\* UploadPVCToTask: os.Stat of the archive, fatal on error.
StatArchive ==
    /\ pc = "u_stat"
    /\ \E ok \in BOOLEAN :
         IF ok
         THEN pc' = "u_upload" /\ UNCHANGED exit
         ELSE Fatal(<<"Failed to read archive: ", "stat error">>)
    /\ UNCHANGED <<names, args, task, objects, calls, cleanups, restoreStatus, watch,
                   updates, pod, result>>

\* UploadPVCToTask: t.UploadArchiveToLagoon, fatal on error, os.Exit(0)
\* otherwise.  UploadArchiveToLagoon retrieves the token, converts the task
\* ID with strconv.Atoi, dropping the error, and uploads the archive to the
\* task with the number obtained.
UploadArchiveToLagoon ==
    /\ pc = "u_upload"
    /\ \E token \in BOOLEAN, ok \in BOOLEAN :
         IF ~token
         THEN /\ calls' = Append(calls, StepCall("token", FALSE))
              /\ Fatal(<<"Failed to upload: ", "failed to get Lagoon token: ", "ssh error">>)
              /\ UNCHANGED result
         ELSE /\ calls' = calls \o <<StepCall("token", TRUE), StepCall("upload", ok)>>
              /\ result' = [result EXCEPT
                                !.uploadedTo = Atoi(TaskIdChars(task.TaskId)).value]
              /\ IF ok
                 THEN ExitOk
                 ELSE Fatal(<<"Failed to upload: ",
                              "failed to upload restore to Lagoon task: ", "api error">>)
    /\ UNCHANGED <<names, args, task, objects, cleanups, restoreStatus, watch, updates,
                   pod>>

(* --------------------------- specification ---------------------------- *)

Next ==
    \/ ParseFlags
    \/ LoadKubeConfig
    \/ NewRestoreTask
    \/ Dispatch
    \/ CreateRestorePVC
    \/ StartRestore
    \/ OpenWatch
    \/ WaitReceive
    \/ WaitChannelClosed
    \/ ControllerUpdate
    \/ WatchOtherEvent
    \/ WatchClose
    \/ FetchAndClassify
    \/ RestoreCompleted
    \/ BootstrapFailed
    \/ UploadCompleted
    \/ FinalCleanup
    \/ DetermineImage
    \/ CreateArchivePVC
    \/ CreateUploadPod
    \/ WaitForUpload
    \/ PodAdvance
    \/ GetUploadPod
    \/ PrintLogsAndReturn
    \/ ArchiveRestore
    \/ StatArchive
    \/ UploadArchiveToLagoon

Spec == Init /\ [][Next]_vars

(* --------------- two tasks side by side: their requests --------------- *)

\* Task IDs of two tasks running in the same namespace.
NameTaskIds == {"1", "12", "2", "rft-1", "target-rft-1", "rnd-0042"}

\* The create and delete requests one run of the restore workflow issues, in
\* order, when every step succeeds, and when the archive claim cannot be
\* created (Cleanup is then called with the zero claim).
RunRequests(t, archiveFails) ==
    IF archiveFails
    THEN <<CreateCall(RestorePVCOf(t), TRUE), CreateCall(RestoreOf(t), TRUE),
           CreateCall(ArchivePVCOf(t), FALSE), DeleteCall(Zero(PVCKind), FALSE),
           DeleteCall(RestoreOf(t), TRUE), DeleteCall(RestorePVCOf(t), TRUE)>>
    ELSE <<CreateCall(RestorePVCOf(t), TRUE), CreateCall(RestoreOf(t), TRUE),
           CreateCall(ArchivePVCOf(t), TRUE), CreateCall(UploadPodOf(t), TRUE),
           DeleteCall(ArchivePVCOf(t), TRUE), DeleteCall(UploadPodOf(t), TRUE),
           DeleteCall(RestoreOf(t), TRUE), DeleteCall(RestorePVCOf(t), TRUE)>>

InitNames ==
    /\ args \in {a \in StartArgs : /\ a.subcommand = "restore"
                                    /\ ~RestoreConfigMissing(a)
                                    /\ a.taskImage # "" /\ ~a.skipBootstrap
                                    /\ TargetsDefault(a)}
    /\ pc = "parse"
    /\ task = NoTask
    /\ objects = {}
    /\ calls = <<>>
    /\ cleanups = <<>>
    /\ restoreStatus = EmptyStatus
    /\ watch = NoWatch
    /\ updates = 0
    /\ pod = NoPod
    /\ result = NoResult
    /\ exit = Running
    /\ \E a \in NameTaskIds, b \in NameTaskIds, fa \in BOOLEAN, fb \in BOOLEAN :
         /\ a # b
         /\ names = [tasks |-> <<NewTask(a, "rnd-0000", args.bid, args.filter),
                                 NewTask(b, "rnd-0000", args.bid, args.filter)>>,
                     archiveFails |-> <<fa, fb>>,
                     at |-> <<0, 0>>,
                     log |-> {}]

\* Task i issues its next request.
NamesIssue ==
    /\ \E i \in {1, 2} :
         LET reqs == RunRequests(names.tasks[i], names.archiveFails[i])
         IN /\ names.at[i] < Len(reqs)
            /\ names' = [names EXCEPT !.at[i] = @ + 1,
                                      !.log = @ \cup {[by |-> i, req |-> reqs[names.at[i] + 1]]}]
    /\ UNCHANGED <<args, pc, task, objects, calls, cleanups, restoreStatus, watch,
                   updates, pod, result, exit>>

NextNames == NamesIssue

SpecNames == InitNames /\ [][NextNames]_vars

(* ============================ properties ============================== *)

Created(o) == \E i \in DOMAIN calls : calls[i] = CreateCall(o, TRUE)

CreateAttempted(o) == \E i \in DOMAIN calls : calls[i].op = "create" /\ calls[i].obj = o

\* A delete of o was issued after o was created.
DeletedAfterCreate(o) ==
    \E i, j \in DOMAIN calls :
        /\ i < j
        /\ calls[i] = CreateCall(o, TRUE)
        /\ calls[j].op = "delete" /\ calls[j].obj = o

CleanupCount(set) == Cardinality({i \in DOMAIN cleanups : cleanups[i].set = set})

Contains(msg, part) == \E i \in DOMAIN msg : msg[i] = part

Exited == pc = "exited"

\* C1: in the restore workflow, when the process has ended after the restore
\* phase succeeded (bootstrap succeeded, failed or skipped), a delete has been
\* issued, after its creation, for every cluster object the run created.
C1_CreatedResourcesDeleted ==
    (Exited /\ result.outcome = "success") =>
        \A i \in DOMAIN calls :
            (calls[i].op = "create" /\ calls[i].ok) => DeletedAfterCreate(calls[i].obj)

\* The bootstrap ran, created archive claim and upload pod, and failed.
C1_Witness ==
    /\ Exited
    /\ result.outcome = "success"
    /\ exit.code = 1
    /\ Created(RestorePVC) /\ Created(RestoreObj)
    /\ Created(ArchivePVC) /\ Created(UploadPod)

\* C2: whenever the restore phase ends in a failure classification, the
\* process has exited non-zero, no archive claim and no upload pod was ever
\* requested, deletes of restore claim and restore request were issued, and
\* the exit message contains the failing condition's message.
C2_FailureAbortsBeforeUpload ==
    result.outcome = "failure" =>
        /\ Exited /\ exit.code # 0
        /\ ~CreateAttempted(ArchivePVC) /\ ~CreateAttempted(UploadPod)
        /\ \A i \in DOMAIN calls : calls[i].obj.kind # PodKind
        /\ DeletedAfterCreate(RestorePVC) /\ DeletedAfterCreate(RestoreObj)
        /\ (restoreStatus.completed.present /\ restoreStatus.completed.reason = "Failed")
              => Contains(exit.msg, restoreStatus.completed.message)
        /\ (/\ restoreStatus.ready.present
            /\ restoreStatus.ready.reason = "CreationFailed"
            /\ ~(restoreStatus.completed.present /\ restoreStatus.completed.reason = "Failed"))
              => Contains(exit.msg, restoreStatus.ready.message)

\* Scenario B: the restore completed with reason Failed, "snapshot not found".
C2_Witness ==
    /\ result.outcome = "failure"
    /\ restoreStatus.completed.reason = "Failed"
    /\ Contains(exit.msg, "snapshot not found")

\* C6: with -skip-bootstrap no create of an upload pod or of an archive claim
\* is ever requested; when the process has ended with status 0 the objects
\* created are exactly the restore claim and the restore request, and a
\* delete of each was issued after its creation.
C6_SkipBootstrapCreatesNoPod ==
    args.skipBootstrap =>
        /\ \A i \in DOMAIN calls :
              /\ calls[i].obj.kind # PodKind
              /\ calls[i].obj # ArchivePVC
              /\ calls[i].op = "create" => calls[i].obj \in {RestorePVC, RestoreObj}
        /\ (Exited /\ exit.code = 0) =>
              /\ Created(RestorePVC) /\ DeletedAfterCreate(RestorePVC)
              /\ Created(RestoreObj) /\ DeletedAfterCreate(RestoreObj)

C6_Witness ==
    /\ args.skipBootstrap
    /\ Exited /\ exit.code = 0
    /\ DeletedAfterCreate(RestoreObj)

\* A configuration error: no subcommand, an unknown subcommand, or restore
\* mode without namespace, task ID, backup ID or restore filter.
ConfigError(a) ==
    \/ a.subcommand = ""
    \/ a.subcommand \notin {"restore", "upload"}
    \/ /\ a.subcommand = "restore"
       /\ (a.ns = "" \/ a.tid = "" \/ a.bid = "" \/ a.filter = "")

\* C9: under a configuration error the process never gets past validation,
\* issues no request that creates or deletes a cluster object, and when it
\* has ended its exit status is non-zero.
C9_ConfigErrorsBeforeMutation ==
    ConfigError(args) =>
        /\ pc \in {"parse", "kubeconfig", "newtask", "dispatch", "exited"}
        /\ calls = <<>> /\ objects = {} /\ cleanups = <<>>
        /\ Exited => exit.code # 0

\* Restore mode without a restore filter, rejected by the validation.
C9_Witness ==
    /\ Exited
    /\ args.subcommand = "restore" /\ args.filter = "" /\ args.tid # ""
    /\ exit.msg = <<"Missing one of: namespace, task id, snapshot id, or restore filter">>

CompletedTrue(status) == status.completed.present /\ status.completed.status = "True"

CompletedFailed(status) == status.completed.present /\ status.completed.reason = "Failed"

CreationFailed(status) == status.ready.present /\ status.ready.reason = "CreationFailed"

Classified == result.outcome \in {"success", "failure"}

TerminalStatus(status) ==
    CompletedTrue(status) \/ CreationFailed(status) \/ CompletedFailed(status)

\* The wait loop takes a restore update off the watch channel.
ReceivesUpdate ==
    /\ pc = "r_wait"
    /\ watch.chan # <<>>
    /\ Head(watch.chan).type = "restore"
    /\ watch' = StoppedWatch \/ watch'.chan = Tail(watch.chan)

\* C4: once the watch is open, when the wait receives an update that carries
\* a terminal state (Completed true, Ready CreationFailed, or Completed with
\* reason Failed), WaitForRestore returns: the loop is left in that step.
C4_TerminalUpdateEndsWait ==
    [][(ReceivesUpdate /\ TerminalStatus(Head(watch.chan).status)) => pc' = "r_fetch"]_vars

PastDispatch == task # NoTask /\ pc # "dispatch"

ArchiveAttempted == \E i \in DOMAIN calls : calls[i].op = "archive"

DeleteCount == Cardinality({i \in DOMAIN calls : calls[i].op = "delete"})

RECURSIVE TargetCount(_)
TargetCount(log) ==
    IF log = <<>> THEN 0 ELSE Len(Head(log).targets) + TargetCount(Tail(log))

\* C10: cleanup is invoked at most once per resource set; when the process
\* has ended, it was invoked exactly once for each set of which an object
\* was created (restore claim + request; archive claim + upload pod); every
\* invocation attempted each of its deletions, whether or not the object
\* existed; and the exit status is 0 exactly when the restore succeeded and
\* the bootstrap was skipped or succeeded, whatever the deletions returned.
C10_CleanupOncePerSet ==
    /\ CleanupCount("restore") <= 1 /\ CleanupCount("upload") <= 1
    /\ DeleteCount = TargetCount(cleanups)
    /\ (Exited /\ args.subcommand = "restore") =>
          /\ (Created(RestorePVC) \/ Created(RestoreObj)) => CleanupCount("restore") = 1
          /\ (Created(ArchivePVC) \/ Created(UploadPod)) => CleanupCount("upload") = 1
          /\ exit.code = 0 <=>
                /\ result.outcome = "success"
                /\ args.skipBootstrap \/ (result.bootstrapErr = <<>> /\ result.podSeen # "")

\* The pod could not be created: cleanup was called on the never-created pod.
C10_Witness ==
    /\ Exited
    /\ CleanupCount("upload") = 1 /\ CleanupCount("restore") = 1
    /\ \E i \in DOMAIN calls : calls[i] = DeleteCall(UploadPod, FALSE)
    /\ ~Created(UploadPod)

NamePrefixes == {"", "target-", "archive-target-", "upload-"}

\* C7: every object a task creates has a name made of a fixed prefix and the
\* task key, and two tasks with distinct task IDs never issue a create or a
\* delete for an object of the same kind and name (a request whose name is
\* empty names no object).
C7_NamesDerivedAndDistinct ==
    /\ \A e \in names.log :
          e.req.op = "create" =>
              \E prefix \in NamePrefixes :
                  e.req.obj.name = prefix \o "rft-" \o names.tasks[e.by].TaskId
    /\ \A e1 \in names.log, e2 \in names.log :
          (e1.by # e2.by /\ e1.req.obj.name # "") => e1.req.obj # e2.req.obj

\* Both tasks have issued every request of a full run.
C7_Witness ==
    /\ names.tasks # <<>>
    /\ names.archiveFails = <<FALSE, FALSE>>
    /\ names.at = <<8, 8>>
    /\ names.tasks[1].TaskId = "rft-1" /\ names.tasks[2].TaskId = "1"

\* The upload pod exists and is in a phase that is not Succeeded or Failed.
NonTerminalPod == pod.phase \in PodPhases \ TerminalPhases

\* The step issues a delete of the upload pod, the archive claim or the
\* restore claim.
IssuesUploadDelete ==
    \E i \in DOMAIN calls' :
        /\ i > Len(calls)
        /\ calls'[i].op = "delete"
        /\ calls'[i].obj \in {UploadPod, ArchivePVC, RestorePVC}

\* BootstrapUploadPod returns without error: Execute logs "Upload completed".
ReportsUploadSuccess == pc # "x_bootok" /\ pc' = "x_bootok"

\* C11: while the upload pod is in a non-terminal phase, the main process
\* issues no delete of the upload pod, the archive claim or the restore claim
\* and does not report upload success, unless the wait itself returned an
\* error (a failed pod creation leaves no pod in any phase).
C11_MainWaitsForPodTerminal ==
    [][(NonTerminalPod /\ result'.waitEnd # "poderror") =>
          ~IssuesUploadDelete /\ ~ReportsUploadSuccess]_vars

StepTried(op) == \E i \in DOMAIN calls : calls[i].op = op

StepOk(op) == \E i \in DOMAIN calls : calls[i] = StepCall(op, TRUE)

\* C12: in the upload-only workflow the token exchange and the upload are
\* attempted only after a successful archive step; the process ends with
\* status 0 only when both the archive and the upload succeeded; and a failed
\* step is the last step attempted, after which the process has ended with a
\* non-zero status.
C12_UploadOnlyAfterArchive ==
    args.subcommand = "upload" =>
        /\ \A j \in DOMAIN calls :
              calls[j].op \in {"token", "upload"} =>
                  \E i \in 1 .. (j - 1) : calls[i] = StepCall("archive", TRUE)
        /\ (Exited /\ exit.code = 0) => (StepOk("archive") /\ StepOk("upload"))
        /\ \A i \in DOMAIN calls :
              ~calls[i].ok => (i = Len(calls) /\ Exited /\ exit.code # 0)
        /\ Contains(exit.msg, "Failed to read archive: ") =>
              (exit.code # 0 /\ ~StepTried("token") /\ ~StepTried("upload"))

\* The archive file could not be created: nothing was attempted afterwards.
C12_Witness ==
    /\ args.subcommand = "upload"
    /\ Exited /\ exit.code = 1
    /\ Contains(exit.msg, "failed to create archive: ")
    /\ calls = <<StepCall("archive", FALSE)>>

\* WaitForUpload returned nil.
WaitReturnedNil == result.waitEnd \in {"podterminal", "podclosed"}

\* C13: once the wait for the upload pod has returned without error and
\* BootstrapUploadPod has returned, the pod's logs were requested, whatever
\* the phase seen at the re-fetch, and before any delete of the upload pod;
\* whether the logs could be fetched or not, BootstrapUploadPod returns an
\* error exactly when the re-fetch set uploadFailed, and the process ends
\* with status 0 exactly when it did not.
C13_LogsBeforePodDelete ==
    (WaitReturnedNil /\ pc \notin {"b_get", "b_logs"}) =>
        /\ \E i \in DOMAIN calls :
              /\ calls[i].op = "logs" /\ calls[i].obj = UploadPod
              /\ \A j \in DOMAIN calls :
                    (calls[j].op = "delete" /\ calls[j].obj = UploadPod) => i < j
        /\ (result.bootstrapErr = <<>>) <=> (result.uploadFailed = <<>>)
        /\ Exited => ((exit.code = 0) <=> (result.uploadFailed = <<>>))

\* The pod failed, its logs could not be fetched, and it was then deleted.
C13_Witness ==
    /\ Exited
    /\ result.podSeen = "Failed"
    /\ \E i, j \in DOMAIN calls :
          /\ i < j
          /\ calls[i] = LogsCall(FALSE)
          /\ calls[j] = DeleteCall(UploadPod, TRUE)

RECURSIVE LogCount(_)
LogCount(log) ==
    IF log = <<>> THEN 0 ELSE Len(Head(log).log) + LogCount(Tail(log))

\* C14: every Cleanup call issued exactly one delete for each non-nil
\* resource passed to it and none for a nil one, whether or not an earlier
\* delete of the same call failed; the deletes of the Cleanup calls are all
\* the deletes the process issued (none is repeated); and after a failed
\* delete in bootstrapResult.Cleanup the process goes on to
\* restoreResult.Cleanup and ends with status 0.
C14_CleanupBestEffort ==
    /\ \A k \in DOMAIN cleanups :
          LET c == cleanups[k]
          IN /\ Len(c.log) = Cardinality({i \in 1 .. 3 : c.args[i] # Nil})
             /\ \A i \in 1 .. 3 :
                   c.args[i] # Nil =>
                       Cardinality({j \in DOMAIN c.log :
                                       c.log[j].op = "delete" /\ c.log[j].obj = c.args[i]}) = 1
             /\ \A j \in DOMAIN c.log : c.log[j].obj # Nil
    /\ DeleteCount = LogCount(cleanups)
    /\ \A k \in DOMAIN cleanups :
          (/\ cleanups[k].set = "upload"
           /\ result.bootstrapErr = <<>>
           /\ \E j \in DOMAIN cleanups[k].log : ~cleanups[k].log[j].ok) =>
              /\ pc \in {"x_cleanup", "exited"}
              /\ Exited => (exit.code = 0 /\ CleanupCount("restore") = 1)

\* bootstrapResult.Cleanup could not delete the archive claim, deleted the
\* pod all the same, and the process went on.
C14_Witness ==
    /\ pc = "x_cleanup"
    /\ \E k \in DOMAIN cleanups :
          /\ cleanups[k].args = <<ArchivePVC, Nil, UploadPod>>
          /\ cleanups[k].log = <<DeleteCall(ArchivePVC, FALSE), DeleteCall(UploadPod, TRUE)>>

CallCount(op, o) ==
    Cardinality({i \in DOMAIN calls : calls[i].op = op /\ calls[i].obj = o})

\* The requests a run makes besides creates and deletes.
StepOps ==
    {"get-schedule", "watch", "get-restore", "get-self", "wait-upload", "get-pod",
     "logs", "archive", "token", "upload"}

\* C15: within one run of the restore workflow a create is requested at most
\* once for each of the restore claim, the restore request, the archive
\* claim and the upload pod, and every get, watch, wait and log request is
\* made at most once; once the claim exists and the schedule was read the
\* restore request is requested exactly once, and when the schedule cannot
\* be read it is never requested; after a failed create, get, watch or wait
\* only log and delete requests follow.
C15_EachStepAtMostOnce ==
    args.subcommand = "restore" =>
        /\ \A o \in {RestorePVC, RestoreObj, ArchivePVC, UploadPod} :
              CallCount("create", o) <= 1
        /\ \A op \in StepOps :
              Cardinality({i \in DOMAIN calls : calls[i].op = op}) <= 1
        /\ (Created(RestorePVC) /\ StepOk("get-schedule")) =>
              CallCount("create", RestoreObj) = 1
        /\ (\E i \in DOMAIN calls : calls[i] = StepCall("get-schedule", FALSE)) =>
              CallCount("create", RestoreObj) = 0
        /\ \A i, j \in DOMAIN calls :
              (/\ i < j
               /\ ~calls[i].ok
               /\ calls[i].op \notin {"delete", "logs", "get-self"}) =>
                  calls[j].op \in {"delete", "logs"}

\* The restore request could not be created: one attempt, then the cleanup.
C15_Witness ==
    /\ Exited
    /\ CallCount("create", RestoreObj) = 1
    /\ ~Created(RestoreObj)
    /\ calls[Len(calls)] = DeleteCall(RestorePVC, TRUE)

SelfLookup(found) == \E i \in DOMAIN calls : calls[i] = StepCall("get-self", found)

ImageError == result.bootstrapErr = <<"failed to determine task image">>

\* C16: in bootstrap mode the image of the upload pod is the current pod's
\* own image when the current pod could be read, and the -task-image flag
\* otherwise; when the pod cannot be read and the flag is empty,
\* BootstrapUploadPod returns "failed to determine task image" and neither
\* the archive claim nor the upload pod is requested; the archive claim and
\* the upload pod are never requested with an empty image.
C16_UploadPodImage ==
    /\ (SelfLookup(TRUE) /\ ~ImageError) => pod.image = SelfImage
    /\ SelfLookup(TRUE) => ~ImageError
    /\ (SelfLookup(FALSE) /\ args.taskImage # "") =>
          (pod.image = args.taskImage /\ ~ImageError)
    /\ (SelfLookup(FALSE) /\ args.taskImage = "") => ImageError
    /\ ImageError =>
          /\ ~CreateAttempted(ArchivePVC) /\ ~CreateAttempted(UploadPod)
          /\ pc \in {"x_bootfail", "exited"}
    /\ (CreateAttempted(ArchivePVC) \/ CreateAttempted(UploadPod)) => pod.image # ""

\* The current pod could not be read and the pod was created with the
\* image of the -task-image flag.
C16_Witness ==
    /\ SelfLookup(FALSE)
    /\ Created(UploadPod)
    /\ pod.image = "registry/restore-files-task"

\* C17: once BootstrapUploadPod has returned after the re-fetch of the upload
\* pod, it returned no error exactly when the re-fetch succeeded and showed
\* the pod in phase Succeeded; for phase Failed, Pending, Running or Unknown
\* and for a failed re-fetch it returned an error.
C17_SuccessOnlyWhenSucceeded ==
    (result.podSeen # "" /\ pc # "b_logs") =>
        ((result.bootstrapErr = <<>>) <=> (result.podSeen = "Succeeded"))

\* The path at which the volume of claim `claim` is mounted in the pod.
MountPathOf(spec, claim) ==
    spec.mounts[CHOOSE v \in DOMAIN spec.volumes : spec.volumes[v] = claim]

\* The flags of the process that runs in the upload pod.
UploadPodProcess == ProcessArgs(pod.spec.command, pod.spec.env)

\* C18: once the upload pod is created, the directory its process archives
\* (the restore target it passes to UploadPVCToTask) is the path at which
\* the restore claim is mounted in the pod, and the directory it writes the
\* archive into is the path at which the archive claim is mounted, for every
\* -restore-target and -archive-target given to the main process.
C18_PodArchivesMountedClaim ==
    Created(UploadPod) =>
        /\ UploadPodProcess.subcommand = "upload"
        /\ UploadPodProcess.restoreTarget = MountPathOf(pod.spec, RestorePVC.name)
        /\ UploadPodProcess.archiveTarget = MountPathOf(pod.spec, ArchivePVC.name)

\* The decimal digits of a natural number.
RECURSIVE Itoa(_)
Itoa(n) ==
    IF n < 10 THEN <<DigitChars[n + 1]>>
    ELSE Append(Itoa(n \div 10), DigitChars[(n % 10) + 1])

\* C19: whenever the upload of the archive has been attempted, a token was
\* obtained before it, and the number of the task record it was sent to is
\* the task's own task ID: written in decimal it is the task ID string.
C19_UploadsToOwnTask ==
    \A j \in DOMAIN calls :
        calls[j].op = "upload" =>
            /\ \E i \in 1 .. (j - 1) : calls[i] = StepCall("token", TRUE)
            /\ result.uploadedTo >= 0
            /\ Itoa(result.uploadedTo) = TaskIdChars(task.TaskId)

====
